---- MODULE Spec2Model ----
(***************************************************************************)
(* Model of trubka's local offset store (kafka package, localOffsetStore)  *)
(* and of the event processing pipeline and shutdown sequence of main().   *)
(*                                                                         *)
(* Spec, FairSpec,       : the offset store, its loop goroutine, one       *)
(* WideSpec                caller and the reader of errors().              *)
(* PipeSpec, FairPipeSpec: main(), the pipeline goroutine, the signal      *)
(*                         listener and the broker client.                 *)
(***************************************************************************)
EXTENDS Integers, Sequences, FiniteSets, TLC

\* ------------------------------------------------------------------ bounds
\* Capacity of the input queue: make(chan *progress, 100), scaled down.
QueueCap == 1
\* Number of Store calls the caller issues in one run.
MaxStores == 2
\* Number of events the broker client produces in one run.
MaxEvents == 2
\* Capacity of the broker client's event channel.
EvCap == 1

\* --------------------------------------------------------------- constants
\* sarama.OffsetNewest and sarama.OffsetOldest, the two sentinel offsets.
OffsetNewest == -1
OffsetOldest == -2

Topics == {"orders", "payments"}
\* The topics of a caller that works with one more.
MoreTopics == Topics \cup {"audit"}
\* The partitions of each topic.
Parts(t) == IF t = "orders" THEN {0, 1} ELSE {0}
\* The offsets a caller passes to Store.
Offsets == {OffsetOldest, OffsetNewest, 10, 20}

\* The empty map[int32]int64.
EmptyMap == << >>

\* m[k] = v, the other keys unchanged (assignment to a Go map).
Put(m, k, v) == [x \in (DOMAIN m) \cup {k} |-> IF x = k THEN v ELSE m[x]]

VARIABLES
  \* ---- offset store
  offsets,      \* s.offsets: topic -> (partition -> offset)
  disk,         \* s.db: topic -> [valid, m], the record of the topic
  in,           \* s.in: the buffered queue of progress updates
  inClosed,     \* close(s.in) has happened
  errsClosed,   \* close(s.writeErrors) has happened
  looppc,       \* position of the loop goroutine of start()
  todo,         \* topics the running range over s.offsets has not visited
  cur,          \* topic of the current iteration of writeOffsetsToDisk
  buf,          \* buff of the current iteration
  final,        \* the running flush is the one of the closed queue
  callerpc,     \* position of the caller of start/Store/Query/close
  draining,     \* somebody receives from errors()
  lateQuery,    \* the caller also calls Query after start()
  subscribed,   \* the topics the caller works with
  \* ---- history of the store
  last,         \* (topic, partition) -> offset of the last enqueued Store
  nStores,      \* Store calls made
  nSentinel,    \* Store calls made with a sentinel offset
  failed,       \* an Encode or db.Write has failed
  finalFlushes, \* flushes started by the closed queue
  \* ---- main() and the pipeline
  hasTopics,    \* len(tm) > 0
  searchSet,    \* searchExpression != nil
  reversed,     \* reverse.Get()
  rewind,       \* rewind.Get()
  offsetFlag,   \* offsetCheckpoint: [set, val]
  timeFlag,     \* timeCheckpoint: [set, val]
  cps,          \* the kafka.Checkpoint objects made so far; a pointer is an index
  topicCp,      \* topics: topic -> pointer to its Checkpoint
  ctxDone,      \* cancel() has been called: ctx.Done() is ready
  consumerCtxDone, \* stopConsumer() has been called
  cancelled,    \* the pipeline's local flag
  stopCalls,    \* calls of stopConsumer() made by the pipeline
  events,       \* consumer.Events(): the events in the channel
  evClosed,     \* the event channel is closed
  pend,         \* the event the broker client is sending, or NoEvent
  nSent,        \* events the broker client has produced
  prodpc,       \* the broker client: "idle", "running" (in Start), "stopped"
  startErr,     \* consumer.Start returned an error
  pipepc,       \* the pipeline goroutine: "off", "run", "done"
  mainpc,       \* position of main()
  consumerClosed, \* consumer.Close() has been called
  sinksClosed,  \* the log and output files have been closed
  written,      \* calls of prn.WriteEvent: [id, out]
  committed,    \* ids of the events given to consumer.StoreOffset
  \* ---- history of the pipeline
  processed,    \* events received with cancelled = FALSE
  discarded,    \* events received with cancelled = TRUE
  afterDone     \* ids of the events received with ctx.Done() ready

loopvars == <<looppc, todo, cur, buf, final>>
hist == <<last, nStores, nSentinel, failed, finalFlushes>>
env == <<draining, lateQuery, subscribed>>
svars == <<offsets, disk, in, inClosed, errsClosed, loopvars, callerpc, env,
           hist>>

flags == <<rewind, offsetFlag, timeFlag>>
config == <<hasTopics, searchSet, reversed, flags>>
subs == <<cps, topicCp>>
ctxvars == <<ctxDone, consumerCtxDone, cancelled, stopCalls>>
chan == <<events, evClosed, pend, nSent>>
outvars == <<written, committed, processed, discarded, afterDone>>
pvars == <<config, subs, ctxvars, chan, prodpc, startErr, pipepc, mainpc,
           consumerClosed, sinksClosed, outvars>>

vars == <<svars, pvars>>

\* A flag of the command line that was not given, and one given with value v.
Unset == [set |-> FALSE, val |-> 0]
FlagSet(v) == [set |-> TRUE, val |-> v]

\* No event.
NoEvent == [id |-> 0, dec |-> "none", match |-> FALSE]

\* ------------------------------------------------------- offset store code

\* The test of Store and of writeOffsetsToDisk for a sentinel offset.
IsSentinelOnlyNewest(o) == o = OffsetNewest
IsSentinel(o) == o = OffsetOldest \/ o = OffsetNewest

\* toWrite of writeOffsetsToDisk: the entries of m that are no sentinel.
ToWrite(m) ==
  [p \in {q \in DOMAIN m : ~IsSentinel(m[q])} |-> m[p]]

\* A record as db.Write stores it: the gob encoding of m, or bytes that do not
\* decode (the buffer of a failed Encode).
Record(m) == [valid |-> TRUE, m |-> m]
BadRecord == [valid |-> FALSE, m |-> EmptyMap]

\* What Query(topic) returns with the records d: the decoded record, an empty
\* map when there is none, an error when the record does not decode.
QueryOf(d, t) ==
  IF t \notin DOMAIN d THEN [err |-> FALSE, m |-> EmptyMap]
  ELSE IF ~d[t].valid THEN [err |-> TRUE, m |-> EmptyMap]
  ELSE [err |-> FALSE, m |-> d[t].m]

FlushPcs == {"flush", "errEnc", "write", "errWrite"}

\* The records a previous run can have left on disk.
InitDisks ==
  { EmptyMap,
    [t \in {"orders"} |-> Record([p \in {0} |-> 10])] }

InitStore ==
  /\ offsets = EmptyMap
  /\ disk \in InitDisks
  /\ in = << >>
  /\ inClosed = FALSE
  /\ errsClosed = FALSE
  /\ looppc = "idle"
  /\ todo = {}
  /\ cur = ""
  /\ buf = BadRecord
  /\ final = FALSE
  /\ callerpc = "new"
  /\ last = EmptyMap
  /\ nStores = 0
  /\ nSentinel = 0
  /\ failed = FALSE
  /\ finalFlushes = 0

InitPipe ==
  /\ ctxDone = FALSE
  /\ consumerCtxDone = FALSE
  /\ cancelled = FALSE
  /\ stopCalls = 0
  /\ events = << >>
  /\ evClosed = FALSE
  /\ pend = NoEvent
  /\ nSent = 0
  /\ prodpc = "idle"
  /\ startErr = FALSE
  /\ pipepc = "off"
  /\ mainpc = "new"
  /\ cps = << >>
  /\ topicCp = EmptyMap
  /\ consumerClosed = FALSE
  /\ sinksClosed = FALSE
  /\ written = {}
  /\ committed = {}
  /\ processed = {}
  /\ discarded = {}
  /\ afterDone = {}

\* The offset store after newLocalOffsetStore, with a reader of errors().
Init ==
  /\ InitStore
  /\ InitPipe
  /\ draining = TRUE
  /\ lateQuery = TRUE
  /\ subscribed = Topics
  /\ hasTopics = TRUE
  /\ searchSet = FALSE
  /\ reversed = FALSE
  /\ rewind = FALSE
  /\ offsetFlag = Unset
  /\ timeFlag = Unset

\* start(): wg.Add(1) and the loop goroutine is launched.
Start ==
  /\ callerpc = "new"
  /\ callerpc' = "started"
  /\ looppc' = "select"
  /\ UNCHANGED <<offsets, disk, in, inClosed, errsClosed, todo, cur, buf,
                 final, env, hist, pvars>>

\* Store with a send that also waits for the loop to be out of a flush.
StoreSync(t, p, o) ==
  /\ t \in subscribed
  /\ callerpc \in {"new", "started"}
  /\ nStores < MaxStores
  /\ nStores' = nStores + 1
  /\ IF IsSentinel(o)
       THEN /\ nSentinel' = nSentinel + 1
            /\ UNCHANGED <<in, last>>
       ELSE /\ Len(in) < QueueCap
            /\ looppc \notin FlushPcs
            /\ in' = Append(in, [topic |-> t, partition |-> p, offset |-> o])
            /\ last' = Put(last, <<t, p>>, o)
            /\ UNCHANGED nSentinel
  /\ UNCHANGED <<offsets, disk, inClosed, errsClosed, loopvars, callerpc,
                 env, failed, finalFlushes, pvars>>

\* Store(topic, partition, offset): nil at once for a sentinel, else the send
\* on s.in, which waits while the queue is full.
Store(t, p, o) ==
  /\ t \in subscribed
  /\ callerpc \in {"new", "started"}
  /\ nStores < MaxStores
  /\ nStores' = nStores + 1
  /\ IF IsSentinel(o)
       THEN /\ nSentinel' = nSentinel + 1
            /\ UNCHANGED <<in, last>>
       ELSE /\ Len(in) < QueueCap
            /\ in' = Append(in, [topic |-> t, partition |-> p, offset |-> o])
            /\ last' = Put(last, <<t, p>>, o)
            /\ UNCHANGED nSentinel
  /\ UNCHANGED <<offsets, disk, inClosed, errsClosed, loopvars, callerpc,
                 env, failed, finalFlushes, pvars>>

\* Query(topic), run by the caller, at startup or (lateQuery) at any time but
\* inside close(): reads the record and replaces the cache entry of the
\* topic; a record that does not decode is an error and leaves the cache
\* alone. A key inserted while the loop ranges over s.offsets may or may not
\* be visited by that range. While the loop goroutine is alive the assignment
\* to s.offsets is not synchronised with the loop's accesses: it takes effect
\* as one step, or the runtime detects the concurrent map access and ends the
\* process (the memory of the store is gone, the records stay).
Query(t) ==
  /\ t \in subscribed
  /\ callerpc = "new" \/ (lateQuery /\ callerpc \in {"started", "closed"})
  /\ ~QueryOf(disk, t).err
  /\ \/ /\ offsets' = Put(offsets, t, QueryOf(disk, t).m)
        /\ IF looppc \in FlushPcs /\ t \notin DOMAIN offsets
             THEN todo' \in {todo, todo \cup {t}}
             ELSE todo' = todo
        /\ UNCHANGED <<in, looppc, cur, buf, callerpc>>
     \/ /\ looppc \notin {"idle", "done"}
        /\ offsets' = EmptyMap
        /\ in' = << >>
        /\ todo' = {}
        /\ cur' = ""
        /\ buf' = BadRecord
        /\ looppc' = "crashed"
        /\ callerpc' = "crashed"
  /\ UNCHANGED <<disk, inClosed, errsClosed, final, env, hist, pvars>>

\* The loop's select takes the ticker case: writeOffsetsToDisk() begins its
\* range over s.offsets.
LoopTick ==
  /\ looppc = "select"
  /\ looppc' = "flush"
  /\ todo' = DOMAIN offsets
  /\ final' = FALSE
  /\ UNCHANGED <<offsets, disk, in, inClosed, errsClosed, cur, buf, callerpc,
                 env, hist, pvars>>

\* The loop's select receives an update: it is merged into s.offsets.
LoopRecv ==
  /\ looppc = "select"
  /\ in # << >>
  /\ LET p == Head(in)
         m == IF p.topic \in DOMAIN offsets THEN offsets[p.topic] ELSE EmptyMap
     IN  offsets' = Put(offsets, p.topic, Put(m, p.partition, p.offset))
  /\ in' = Tail(in)
  /\ UNCHANGED <<disk, inClosed, errsClosed, loopvars, callerpc, env,
                 hist, pvars>>

\* The loop's select finds the queue closed and empty: the final flush begins.
LoopRecvClosed ==
  /\ looppc = "select"
  /\ in = << >>
  /\ inClosed
  /\ looppc' = "flush"
  /\ todo' = DOMAIN offsets
  /\ final' = TRUE
  /\ finalFlushes' = finalFlushes + 1
  /\ UNCHANGED <<offsets, disk, in, inClosed, errsClosed, cur, buf, callerpc,
                 env, last, nStores, nSentinel, failed, pvars>>

\* Where the loop goes when writeOffsetsToDisk returns: out of the goroutine
\* (wg.Done) after the final flush, else back to the select.
AfterFlush == IF final THEN "done" ELSE "select"

\* writeOffsetsToDisk without the test of len(toWrite): an empty toWrite is
\* encoded and written like any other.
FlushVisitWritesEmpty ==
  /\ looppc = "flush"
  /\ IF todo = {}
       THEN /\ looppc' = AfterFlush
            /\ UNCHANGED <<todo, cur, buf, failed>>
       ELSE \E t \in todo :
              /\ cur' = t
              /\ todo' = todo \ {t}
              /\ buf' = Record(ToWrite(offsets[t]))
              /\ looppc' = "write"
              /\ UNCHANGED failed
  /\ UNCHANGED <<offsets, disk, in, inClosed, errsClosed, final, callerpc,
                 env, last, nStores, nSentinel, finalFlushes, pvars>>

\* One iteration of the range of writeOffsetsToDisk up to enc.Encode: the range
\* is over (the function returns), or the next topic is taken in map order;
\* an empty toWrite returns from the function; else toWrite is encoded.
FlushVisit ==
  /\ looppc = "flush"
  /\ IF todo = {}
       THEN /\ looppc' = AfterFlush
            /\ UNCHANGED <<todo, cur, buf, failed>>
       ELSE \E t \in todo :
              LET toWrite == ToWrite(offsets[t]) IN
              IF toWrite = EmptyMap
                THEN /\ looppc' = AfterFlush
                     /\ todo' = {}
                     /\ UNCHANGED <<cur, buf, failed>>
                ELSE /\ cur' = t
                     /\ todo' = todo \ {t}
                     /\ \E encOk \in BOOLEAN :
                          IF encOk
                            THEN /\ buf' = Record(toWrite)
                                 /\ looppc' = "write"
                                 /\ UNCHANGED failed
                            ELSE /\ buf' = BadRecord
                                 /\ looppc' = "errEnc"
                                 /\ failed' = TRUE
  /\ UNCHANGED <<offsets, disk, in, inClosed, errsClosed, final, callerpc,
                 env, last, nStores, nSentinel, finalFlushes, pvars>>

\* s.writeErrors <- err: the channel is unbuffered, the send completes when
\* the reader of errors() receives it. After the Encode error the iteration
\* goes on to db.Write; after the Write error, to the next topic.
SendError ==
  /\ looppc \in {"errEnc", "errWrite"}
  /\ draining
  /\ ~errsClosed
  /\ looppc' = IF looppc = "errEnc" THEN "write" ELSE "flush"
  /\ UNCHANGED <<offsets, disk, in, inClosed, errsClosed, todo, cur, buf,
                 final, callerpc, env, hist, pvars>>

\* s.db.Write(topic, buff.Bytes()): the record is replaced, or the write fails.
WriteRecord ==
  /\ looppc = "write"
  /\ \E writeOk \in BOOLEAN :
       IF writeOk
         THEN /\ disk' = Put(disk, cur, buf)
              /\ looppc' = "flush"
              /\ UNCHANGED failed
         ELSE /\ looppc' = "errWrite"
              /\ failed' = TRUE
              /\ UNCHANGED disk
  /\ cur' = ""
  /\ buf' = BadRecord
  /\ UNCHANGED <<offsets, in, inClosed, errsClosed, todo, final, callerpc,
                 env, last, nStores, nSentinel, finalFlushes, pvars>>

\* close(): close(s.in), then s.wg.Wait().
CloseBegin ==
  /\ callerpc = "started"
  /\ inClosed' = TRUE
  /\ callerpc' = "waiting"
  /\ UNCHANGED <<offsets, disk, in, errsClosed, loopvars, env, hist,
                 pvars>>

\* close() that closes the error channel without s.wg.Wait().
CloseEndNoWait ==
  /\ callerpc = "waiting"
  /\ errsClosed' = TRUE
  /\ callerpc' = "closed"
  /\ UNCHANGED <<offsets, disk, in, inClosed, loopvars, env, hist, pvars>>

\* close(): s.wg.Wait() returns once the loop has run wg.Done(); then
\* close(s.writeErrors), and close() returns.
CloseEnd ==
  /\ callerpc = "waiting"
  /\ looppc = "done"
  /\ errsClosed' = TRUE
  /\ callerpc' = "closed"
  /\ UNCHANGED <<offsets, disk, in, inClosed, loopvars, env, hist, pvars>>

Next ==
  \/ Start
  \/ \E t \in MoreTopics : \E p \in Parts(t) : \E o \in Offsets :
       Store(t, p, o)
  \/ \E t \in MoreTopics : Query(t)
  \/ LoopTick
  \/ LoopRecv
  \/ LoopRecvClosed
  \/ FlushVisit
  \/ SendError
  \/ WriteRecord
  \/ CloseBegin
  \/ CloseEnd

Spec == Init /\ [][Next]_vars

\* The store with either a reader of errors() or none and a caller that
\* queries at startup only, under the scheduling of the Go runtime: a goroutine
\* that can run does run, a select whose receive case is ready again and again
\* takes it (the loop goroutine is either in its select or in a flush, so one
\* condition covers each), and the reader of errors(), when there is one,
\* keeps receiving.
FairInit ==
  /\ InitStore
  /\ InitPipe
  /\ draining \in BOOLEAN
  /\ lateQuery = FALSE
  /\ subscribed = Topics
  /\ hasTopics = TRUE
  /\ searchSet = FALSE
  /\ reversed = FALSE
  /\ rewind = FALSE
  /\ offsetFlag = Unset
  /\ timeFlag = Unset

\* The store with a reader of errors(), no record on disk and a caller that
\* works with three topics and queries at startup only.
WideInit ==
  /\ InitStore
  /\ disk = EmptyMap
  /\ InitPipe
  /\ draining = TRUE
  /\ lateQuery = FALSE
  /\ subscribed = MoreTopics
  /\ hasTopics = TRUE
  /\ searchSet = FALSE
  /\ reversed = FALSE
  /\ rewind = FALSE
  /\ offsetFlag = Unset
  /\ timeFlag = Unset

WideSpec == WideInit /\ [][Next]_vars

FairSpec ==
  /\ FairInit
  /\ [][Next]_vars
  /\ SF_vars(LoopRecv \/ LoopRecvClosed)
  /\ WF_vars(FlushVisit \/ WriteRecord \/ SendError \/ CloseEnd)

\* ------------------------------------------------- main() and the pipeline

\* What the broker client can deliver: dec is what the codec makes of the
\* event ("ok", or the step that fails), match is search.Match(output).
EventKinds ==
  { [dec |-> "ok", match |-> TRUE], [dec |-> "ok", match |-> FALSE],
    [dec |-> "noschema", match |-> FALSE],
    [dec |-> "badbytes", match |-> FALSE],
    [dec |-> "badmarshal", match |-> FALSE] }

\* process whose filter suppresses the matches whatever reverse is.
ProcessIgnoresReverse(e, search, reverse) ==
  IF e.dec = "noschema" THEN [out |-> "nil", err |-> TRUE]
  ELSE IF e.dec = "badbytes" THEN [out |-> "nil", err |-> TRUE]
  ELSE IF e.dec = "badmarshal" THEN [out |-> "nil", err |-> TRUE]
  ELSE IF search /\ e.match THEN [out |-> "nil", err |-> FALSE]
  ELSE [out |-> "bytes", err |-> FALSE]

\* process that returns no error when proto.Unmarshal fails.
ProcessNoUnmarshalCheck(e, search, reverse) ==
  IF e.dec = "noschema" THEN [out |-> "nil", err |-> TRUE]
  ELSE IF e.dec = "badmarshal" THEN [out |-> "nil", err |-> TRUE]
  ELSE IF search /\ (e.match = reverse) THEN [out |-> "nil", err |-> FALSE]
  ELSE [out |-> "bytes", err |-> FALSE]

\* process(): loader.Get, proto.Unmarshal and marshaller.Marshal each return
\* their error; then a set filter whose match equals reverse suppresses the
\* output (nil, nil); else the output is returned.
Process(e, search, reverse) ==
  IF e.dec = "noschema" THEN [out |-> "nil", err |-> TRUE]
  ELSE IF e.dec = "badbytes" THEN [out |-> "nil", err |-> TRUE]
  ELSE IF e.dec = "badmarshal" THEN [out |-> "nil", err |-> TRUE]
  ELSE IF search /\ (e.match = reverse) THEN [out |-> "nil", err |-> FALSE]
  ELSE [out |-> "bytes", err |-> FALSE]

\* main() with topics to consume, given any filter setting.
PipeInit ==
  /\ InitStore
  /\ disk = EmptyMap
  /\ InitPipe
  /\ draining = TRUE
  /\ lateQuery = TRUE
  /\ subscribed = Topics
  /\ hasTopics \in BOOLEAN
  /\ searchSet \in BOOLEAN
  /\ reversed \in BOOLEAN
  /\ rewind \in BOOLEAN
  /\ offsetFlag \in {Unset, FlagSet(42)}
  /\ timeFlag \in {Unset, FlagSet(1700)}

\* kafka.NewCheckpoint(rewind): neither an explicit offset nor a timestamp.
NewCheckpoint(rw) == [rewind |-> rw, offset |-> Unset, time |-> Unset]
\* cp.SetOffset(v) and cp.SetTimeOffset(v).
SetOffset(cp, v) == [cp EXCEPT !.offset = FlagSet(v)]
SetTimeOffset(cp, v) == [cp EXCEPT !.time = FlagSet(v)]

\* getCheckpoint with two ifs in place of the switch.
GetCheckpointBoth(rw, tc, oc) ==
  LET c1 == IF oc.set THEN SetOffset(NewCheckpoint(rw), oc.val)
            ELSE NewCheckpoint(rw)
  IN  IF tc.set THEN SetTimeOffset(c1, tc.val) ELSE c1

\* getCheckpoint(rewind, timeCheckpoint, offsetCheckpoint): the switch takes
\* the first case that is set, the offset before the time.
GetCheckpoint(rw, tc, oc) ==
  IF oc.set THEN SetOffset(NewCheckpoint(rw), oc.val)
  ELSE IF tc.set THEN SetTimeOffset(NewCheckpoint(rw), tc.val)
  ELSE NewCheckpoint(rw)

\* tm, the topics to consume with their message types (the keys only).
Tm == IF hasTopics THEN Topics ELSE {}

\* getTopics(topicMap, cp): every topic of the map gets the pointer cp.
GetTopics(topicMap, cp) == [t \in topicMap |-> cp]

\* main(): cp := getCheckpoint(...), a new object, and topics = getTopics(tm,
\* cp).
MainCheckpoint ==
  /\ mainpc = "new"
  /\ cps' = Append(cps, GetCheckpoint(rewind, timeFlag, offsetFlag))
  /\ topicCp' = GetTopics(Tm, Len(cps) + 1)
  /\ mainpc' = "init"
  /\ UNCHANGED <<svars, config, ctxvars, chan, prodpc, startErr, pipepc,
                 consumerClosed, sinksClosed, outvars>>

\* The signal listener: a signal arrives and cancel() is called.
Signal ==
  /\ ~ctxDone
  /\ mainpc \notin {"done", "exited"}
  /\ ctxDone' = TRUE
  /\ UNCHANGED <<svars, config, subs, consumerCtxDone, cancelled, stopCalls, chan,
                 prodpc, startErr, pipepc, mainpc, consumerClosed,
                 sinksClosed, outvars>>

\* main(), len(tm) > 0: wg.Add(1), the pipeline goroutine is launched and
\* consumer.Start is called.
MainLaunch ==
  /\ mainpc = "init"
  /\ hasTopics
  /\ pipepc' = "run"
  /\ prodpc' = "running"
  /\ mainpc' = "start"
  /\ UNCHANGED <<svars, config, subs, ctxvars, chan, startErr, consumerClosed,
                 sinksClosed, outvars>>

\* main(), len(tm) = 0: "Nothing to process".
MainNothing ==
  /\ mainpc = "init"
  /\ ~hasTopics
  /\ mainpc' = "close"
  /\ UNCHANGED <<svars, config, subs, ctxvars, chan, prodpc, startErr, pipepc,
                 consumerClosed, sinksClosed, outvars>>

\* The broker client has the next event to send.
ProdBegin(k) ==
  /\ prodpc = "running"
  /\ pend = NoEvent
  /\ nSent < MaxEvents
  /\ nSent' = nSent + 1
  /\ pend' = [id |-> nSent + 1, dec |-> k.dec, match |-> k.match]
  /\ UNCHANGED <<svars, config, subs, ctxvars, events, evClosed, prodpc, startErr,
                 pipepc, mainpc, consumerClosed, sinksClosed, outvars>>

\* The broker client's send on the event channel, which waits for room.
ProdSend ==
  /\ pend # NoEvent
  /\ Len(events) < EvCap
  /\ events' = Append(events, pend)
  /\ pend' = NoEvent
  /\ UNCHANGED <<svars, config, subs, ctxvars, evClosed, nSent, prodpc, startErr,
                 pipepc, mainpc, consumerClosed, sinksClosed, outvars>>

\* consumer.Start returns nil: the client was told to stop and is not in a
\* send. It may close the event channel itself.
ProdStop ==
  /\ prodpc = "running"
  /\ consumerCtxDone
  /\ pend = NoEvent
  /\ prodpc' = "stopped"
  /\ mainpc' = "close"
  /\ evClosed' \in {evClosed, TRUE}
  /\ UNCHANGED <<svars, config, subs, ctxvars, events, pend, nSent, startErr,
                 pipepc, consumerClosed, sinksClosed, outvars>>

\* consumer.Start returns an error.
ProdFail ==
  /\ prodpc = "running"
  /\ pend = NoEvent
  /\ prodpc' = "stopped"
  /\ startErr' = TRUE
  /\ mainpc' = "close"
  /\ UNCHANGED <<svars, config, subs, ctxvars, chan, pipepc, consumerClosed,
                 sinksClosed, outvars>>

\* The ctx.Done() case without the test of cancelled (stopConsumer() again,
\* as often as the counter of the model allows).
PipeCancelRepeats ==
  /\ pipepc = "run"
  /\ ctxDone
  /\ stopCalls < 2
  /\ consumerCtxDone' = TRUE
  /\ cancelled' = TRUE
  /\ stopCalls' = stopCalls + 1
  /\ UNCHANGED <<svars, config, subs, ctxDone, chan, prodpc, startErr, pipepc,
                 mainpc, consumerClosed, sinksClosed, outvars>>

\* The pipeline's select takes <-ctx.Done(): the first time stopConsumer() is
\* called and cancelled is set.
PipeCancel ==
  /\ pipepc = "run"
  /\ ctxDone
  /\ IF ~cancelled
       THEN /\ consumerCtxDone' = TRUE
            /\ cancelled' = TRUE
            /\ stopCalls' = stopCalls + 1
       ELSE UNCHANGED <<consumerCtxDone, cancelled, stopCalls>>
  /\ UNCHANGED <<svars, config, subs, ctxDone, chan, prodpc, startErr, pipepc,
                 mainpc, consumerClosed, sinksClosed, outvars>>

\* What the pipeline does with a received event e when it takes the branch
\* `skip` of `if cancelled { continue }`: nothing, or process and, with no
\* error, prn.WriteEvent and consumer.StoreOffset. The history records the
\* event by the value of cancelled and of ctx.Done() at the receive.
Handle(e, skip, search, reverse) ==
  /\ afterDone' = IF ctxDone THEN afterDone \cup {e.id} ELSE afterDone
  /\ discarded' = IF cancelled THEN discarded \cup {e} ELSE discarded
  /\ processed' = IF cancelled THEN processed ELSE processed \cup {e}
  /\ IF skip \/ Process(e, search, reverse).err
       THEN UNCHANGED <<written, committed>>
       ELSE /\ written' = written \cup
                 {[id |-> e.id, out |-> Process(e, search, reverse).out]}
            /\ committed' = committed \cup {e.id}

\* The pipeline stops receiving once cancelled.
PipeRecvUntilCancelled ==
  /\ pipepc = "run"
  /\ events # << >>
  /\ ~cancelled
  /\ events' = Tail(events)
  /\ Handle(Head(events), cancelled, searchSet, reversed)
  /\ UNCHANGED <<svars, config, subs, ctxvars, evClosed, pend, nSent, prodpc,
                 startErr, pipepc, mainpc, consumerClosed, sinksClosed>>

\* The pipeline without `if cancelled { continue }`.
PipeRecvNoSkip ==
  /\ pipepc = "run"
  /\ events # << >>
  /\ events' = Tail(events)
  /\ Handle(Head(events), FALSE, searchSet, reversed)
  /\ UNCHANGED <<svars, config, subs, ctxvars, evClosed, pend, nSent, prodpc,
                 startErr, pipepc, mainpc, consumerClosed, sinksClosed>>

\* The pipeline's select receives an event.
PipeRecv ==
  /\ pipepc = "run"
  /\ events # << >>
  /\ events' = Tail(events)
  /\ Handle(Head(events), cancelled, searchSet, reversed)
  /\ UNCHANGED <<svars, config, subs, ctxvars, evClosed, pend, nSent, prodpc,
                 startErr, pipepc, mainpc, consumerClosed, sinksClosed>>

\* The pipeline returns on the closed channel or as soon as it is cancelled.
PipeRecvClosedOrCancelled ==
  /\ pipepc = "run"
  /\ (events = << >> /\ evClosed) \/ cancelled
  /\ pipepc' = "done"
  /\ UNCHANGED <<svars, config, subs, ctxvars, chan, prodpc, startErr, mainpc,
                 consumerClosed, sinksClosed, outvars>>

\* The pipeline's select finds the event channel closed and empty: return,
\* and the deferred wg.Done().
PipeRecvClosed ==
  /\ pipepc = "run"
  /\ events = << >>
  /\ evClosed
  /\ pipepc' = "done"
  /\ UNCHANGED <<svars, config, subs, ctxvars, chan, prodpc, startErr, mainpc,
                 consumerClosed, sinksClosed, outvars>>

\* main(): consumer.Close(), which closes the event channel if it is open.
MainClose ==
  /\ mainpc = "close"
  /\ consumerClosed' = TRUE
  /\ evClosed' = TRUE
  /\ mainpc' = "wait"
  /\ UNCHANGED <<svars, config, subs, ctxvars, events, pend, nSent, prodpc,
                 startErr, pipepc, sinksClosed, outvars>>

\* main() that goes on without wg.Wait().
MainNoWait ==
  /\ mainpc = "wait"
  /\ mainpc' = IF startErr THEN "exited" ELSE "sinks"
  /\ UNCHANGED <<svars, config, subs, ctxvars, chan, prodpc, startErr, pipepc,
                 consumerClosed, sinksClosed, outvars>>

\* main(): wg.Wait() returns when the pipeline goroutine has exited (or was
\* never launched); then exit(err) if consumer.Start returned an error.
MainWait ==
  /\ mainpc = "wait"
  /\ pipepc \in {"off", "done"}
  /\ mainpc' = IF startErr THEN "exited" ELSE "sinks"
  /\ UNCHANGED <<svars, config, subs, ctxvars, chan, prodpc, startErr, pipepc,
                 consumerClosed, sinksClosed, outvars>>

\* main(): the log file and the output files are closed, prn.Close(), and the
\* deferred stopConsumer() and cancel() run.
MainCloseSinks ==
  /\ mainpc = "sinks"
  /\ sinksClosed' = TRUE
  /\ mainpc' = "done"
  /\ ctxDone' = TRUE
  /\ consumerCtxDone' = TRUE
  /\ UNCHANGED <<svars, config, subs, cancelled, stopCalls, chan, prodpc, startErr,
                 pipepc, consumerClosed, outvars>>

PipeNext ==
  \/ Signal
  \/ MainCheckpoint
  \/ MainLaunch
  \/ MainNothing
  \/ \E k \in EventKinds : ProdBegin(k)
  \/ ProdSend
  \/ ProdStop
  \/ ProdFail
  \/ PipeCancel
  \/ PipeRecv
  \/ PipeRecvClosed
  \/ MainClose
  \/ MainWait
  \/ MainCloseSinks

PipeSpec == PipeInit /\ [][PipeNext]_vars

\* main() with no filter set, under the scheduling of the Go runtime: a
\* goroutine that can run does run (main(), the broker client once it is told
\* to stop or has room to send), and the pipeline's select takes a case that
\* stays ready. One condition covers the steps of a goroutine of which one at
\* a time is enabled.
FairPipeInit ==
  /\ PipeInit
  /\ ~searchSet
  /\ ~reversed
  /\ ~rewind
  /\ offsetFlag = Unset
  /\ timeFlag = Unset

FairPipeSpec ==
  /\ FairPipeInit
  /\ [][PipeNext]_vars
  /\ WF_vars(MainCheckpoint \/ MainLaunch \/ MainClose \/ MainWait \/ MainCloseSinks)
  /\ WF_vars(ProdSend \/ ProdStop)
  /\ WF_vars(PipeCancel)
  /\ WF_vars(PipeRecv \/ PipeRecvClosed)

\* ------------------------------------------------- offset store: properties

\* writeOffsetsToDisk returns in this step.
FlushEnds == looppc \in FlushPcs /\ looppc' \in {"select", "done"}

\* An update of (t, p) is still in the queue.
Queued(t, p) ==
  \E i \in 1..Len(in) : in[i].topic = t /\ in[i].partition = p

\* The cache holds the last stored offset of (t, p).
Cached(t, p) ==
  /\ t \in DOMAIN offsets
  /\ p \in DOMAIN offsets[t]
  /\ offsets[t][p] = last[<<t, p>>]

\* Query(t) on the records d returns offset o for partition p.
Returns(d, t, p, o) ==
  /\ ~QueryOf(d, t).err
  /\ p \in DOMAIN QueryOf(d, t).m
  /\ QueryOf(d, t).m[p] = o

\* C1: once the loop has merged every Store of a partition (none is left in the
\* queue, the cache holds the last one) and a flush in which nothing failed
\* has been performed, Query(topic) returns for that partition the offset of
\* the last Store call that was no sentinel.
C1_LastStoreAfterFlush ==
  [][(FlushEnds /\ ~failed') =>
       \A k \in DOMAIN last :
         (~Queued(k[1], k[2]) /\ Cached(k[1], k[2]))
           => Returns(disk', k[1], k[2], last[k])]_vars

\* C2: no record on disk holds a sentinel offset (OffsetOldest, OffsetNewest)
\* for any partition, in any reachable state.
C2_NoSentinelOnDisk ==
  \A t \in DOMAIN disk :
    \A p \in DOMAIN disk[t].m :
      disk[t].m[p] \notin {OffsetOldest, OffsetNewest}

\* A Store with a sentinel has been made and a flush has written a record
\* that holds the last stored offset of a partition.
C2_Witness ==
  /\ nSentinel > 0
  /\ \E k \in DOMAIN last : Returns(disk, k[1], k[2], last[k])
  /\ finalFlushes = 1

\* C3: after close() has returned, no write having failed, Query(topic)
\* returns for every partition the last offset stored for it: no update that
\* the cache holds is missing on disk, whatever other topics the cache holds.
C3_CloseFlushesEveryUpdate ==
  (callerpc = "closed" /\ ~failed) =>
    \A k \in DOMAIN last :
      Cached(k[1], k[2]) => Returns(disk, k[1], k[2], last[k])

\* C6: in one flush in which nothing fails, every topic of the cache whose
\* mapping has a non-sentinel offset has its full mapping on disk when the
\* flush returns; a topic with an empty mapping does not prevent it.
C6_FlushWritesEveryTopic ==
  [][(FlushEnds /\ ~failed') =>
       \A t \in DOMAIN offsets' :
         ToWrite(offsets'[t]) # EmptyMap =>
           (t \in DOMAIN disk' /\ disk'[t] = Record(ToWrite(offsets'[t])))]_vars

\* C7: the queue never holds more than its capacity; a Store with a real
\* offset can return exactly when the queue holds fewer updates than its
\* capacity, whatever the loop is doing (in a flush, blocked on the error
\* channel); a Store with a sentinel can always return, and enqueues nothing.
C7_StoreWaitsOnlyForQueue ==
  /\ [](Len(in) <= QueueCap)
  /\ [](\A t \in Topics : \A p \in Parts(t) : \A o \in Offsets :
          (callerpc \in {"new", "started"} /\ nStores < MaxStores) =>
            (ENABLED Store(t, p, o)
               <=> (o \in {OffsetOldest, OffsetNewest} \/ Len(in) < QueueCap)))
  /\ [][\A t \in Topics : \A p \in Parts(t) :
          \A o \in {OffsetOldest, OffsetNewest} :
            Store(t, p, o) => in' = in]_vars

\* The loop is blocked sending on the error channel of a failed persist, the
\* queue has room and the caller, who has stored an offset, can store another.
C7_Witness ==
  /\ looppc \in {"errEnc", "errWrite"}
  /\ Len(in) < QueueCap
  /\ nStores < MaxStores
  /\ last # EmptyMap

\* C8: with a reader of errors(), close() returns; when it has returned the
\* loop has merged every queued update, performed exactly one final flush and
\* terminated, and the error channel is closed only after the loop is done.
\* With no reader, a loop blocked on the error send stays blocked and
\* close() does not return.
C8_CloseReturns ==
  /\ (callerpc = "waiting" /\ draining) ~> (callerpc = "closed")
  /\ [](callerpc = "closed" =>
          (looppc = "done" /\ in = << >> /\ finalFlushes = 1))
  /\ [](errsClosed => looppc = "done")
  /\ [](finalFlushes <= 1)
  /\ [][(~draining /\ looppc \in {"errEnc", "errWrite"}) =>
          (looppc' = looppc /\ callerpc' # "closed")]_vars

\* close() has returned after a persist failed and its error was received.
C8_Witness ==
  /\ callerpc = "closed"
  /\ draining
  /\ failed
  /\ last # EmptyMap

\* --------------------------------------------------- pipeline: properties

\* Event id was neither given to prn.WriteEvent nor to consumer.StoreOffset.
Untouched(id) ==
  /\ id \notin committed
  /\ \A w \in written : w.id # id

\* C4: after cancel(), a send of the broker client on the event channel
\* completes, and the pipeline goroutine exits (wg.Done) once the event
\* channel is closed, however many events were sent after the cancellation.
C4_DrainsAfterCancel ==
  /\ (ctxDone /\ pend # NoEvent) ~> (pend = NoEvent)
  /\ (ctxDone /\ pipepc = "run") ~> (pipepc = "done")
  /\ (evClosed /\ pipepc = "run") ~> (pipepc = "done")

\* Every event of the run was received after the pipeline saw the
\* cancellation, and the pipeline has exited.
C4_Witness ==
  /\ pipepc = "done"
  /\ ctxDone
  /\ Cardinality(discarded) = MaxEvents

\* C5 as stated: every event received after cancel() was called (ctx.Done()
\* ready) is neither written nor committed.
C5_DiscardedAfterCtxDone ==
  \A id \in afterDone : Untouched(id)

\* C5, amended: every event received after the pipeline has seen the
\* cancellation (cancelled = TRUE) is neither written nor committed.
C5_DiscardedAfterCancelled ==
  \A e \in discarded : Untouched(e.id)

\* An event was processed before the cancellation and a decodable one was
\* received after the pipeline saw it.
C5_Witness ==
  /\ processed # {}
  /\ \E e \in discarded : e.dec = "ok"

\* C9 as stated: on a shutdown by signal (consumer.Start returns no error)
\* consumer.Close() is never called before the pipeline goroutine has exited.
C9_ClientClosedAfterPipeline ==
  (ctxDone /\ ~startErr /\ consumerClosed) => pipepc \in {"off", "done"}

\* C9, amended: consumer.Close() is called after consumer.Start has returned
\* and before wg.Wait(); the sinks are closed only after the pipeline
\* goroutine has exited and the broker client is closed, and only if
\* consumer.Start returned no error.
C9_ShutdownOrder ==
  /\ consumerClosed => prodpc # "running"
  /\ mainpc \in {"sinks", "done", "exited"} =>
       (consumerClosed /\ pipepc \in {"off", "done"})
  /\ sinksClosed => (consumerClosed /\ pipepc \in {"off", "done"} /\ ~startErr)

\* After a signal the pipeline has cancelled and exited, and main() has closed
\* the broker client and then the sinks.
C9_Witness ==
  /\ sinksClosed
  /\ cancelled
  /\ pipepc = "done"
  /\ nSent = MaxEvents

\* C10: an event received while Running is committed exactly when its
\* processing returned no error: a decodable event is committed, also when the
\* filter drops it; an event whose schema lookup, unmarshal or marshal failed
\* is neither committed nor written; and the goroutine exits only on the
\* closed channel, not on such an error.
C10_CommitIffNoError ==
  /\ \A e \in processed :
       /\ e.id \in committed <=> e.dec = "ok"
       /\ e.dec # "ok" => Untouched(e.id)
  /\ pipepc = "done" => evClosed

\* An event failed to decode, and the next event, dropped by the filter, was
\* committed all the same.
C10_Witness ==
  /\ searchSet
  /\ \E e1 \in processed, e2 \in processed :
       /\ e1.dec = "badbytes"
       /\ e1.id < e2.id
       /\ e2.dec = "ok"
       /\ e2.match = reversed
       /\ e2.id \in committed
       /\ [id |-> e2.id, out |-> "nil"] \in written

\* C11: for every successfully decoded event received while Running, process
\* returns the output as kept (it is written as bytes) exactly when no filter
\* is set, or the filter matches and reverse is false, or the filter does not
\* match and reverse is true; otherwise it returns no output and no error
\* (the event is written as nil and committed).
C11_FilterKeeps ==
  \A e \in processed :
    e.dec = "ok" =>
      LET keep == \/ ~searchSet
                  \/ (e.match /\ ~reversed)
                  \/ (~e.match /\ reversed)
      IN  /\ keep <=> [id |-> e.id, out |-> "bytes"] \in written
          /\ ~keep <=> [id |-> e.id, out |-> "nil"] \in written
          /\ e.id \in committed

\* With a reversed filter, an event that does not match was kept and an event
\* that matches was suppressed.
C11_Witness ==
  /\ searchSet
  /\ reversed
  /\ \E e1 \in processed, e2 \in processed :
       /\ e1.dec = "ok" /\ ~e1.match
       /\ [id |-> e1.id, out |-> "bytes"] \in written
       /\ e2.dec = "ok" /\ e2.match
       /\ [id |-> e2.id, out |-> "nil"] \in written

\* C12: for every setting of the rewind, offset and time flags, the Checkpoint
\* of getCheckpoint has at most one of explicit offset and explicit timestamp
\* set: the offset exactly when the offset flag is set (with its value), the
\* timestamp exactly when the offset flag is not set and the time flag is
\* (with its value); and every subscribed topic holds the same Checkpoint
\* object.
C12_CheckpointOfFlags ==
  mainpc # "new" =>
    /\ Len(cps) = 1
    /\ DOMAIN topicCp = Tm
    /\ \A t \in DOMAIN topicCp : topicCp[t] = 1
    /\ LET cp == cps[1] IN
         /\ ~(cp.offset.set /\ cp.time.set)
         /\ cp.rewind = rewind
         /\ cp.offset.set <=> offsetFlag.set
         /\ cp.offset.set => cp.offset.val = offsetFlag.val
         /\ cp.time.set <=> (~offsetFlag.set /\ timeFlag.set)
         /\ cp.time.set => cp.time.val = timeFlag.val

\* Both flags were given and two topics share the Checkpoint, which carries
\* the offset only.
C12_Witness ==
  /\ offsetFlag.set
  /\ timeFlag.set
  /\ Cardinality(DOMAIN topicCp) = 2
  /\ cps[topicCp["orders"]].offset.val = 42
  /\ ~cps[topicCp["payments"]].time.set

\* C17: the pipeline calls stopConsumer() at most once, and exactly once when
\* it has seen the cancellation, however often its select takes the
\* ctx.Done() case afterwards; cancelled never goes back to false; and once
\* cancelled the pipeline neither writes nor commits an event again.
C17_CancelOnce ==
  /\ [](stopCalls <= 1)
  /\ [](cancelled <=> stopCalls = 1)
  /\ [](cancelled => consumerCtxDone)
  /\ [][cancelled => cancelled']_vars
  /\ [][cancelled => (written' = written /\ committed' = committed)]_vars

\* The pipeline is cancelled, has discarded an event after having processed
\* one, and its select can take the ctx.Done() case again.
C17_Witness ==
  /\ cancelled
  /\ stopCalls = 1
  /\ pipepc = "run"
  /\ ctxDone
  /\ processed # {}
  /\ discarded # {}

\* The state of the pipeline: 0 not launched, 1 Running, 2 Cancelling,
\* 3 Stopped (Drained is passed inside the step that finds the channel closed).
PipeState ==
  IF pipepc = "off" THEN 0
  ELSE IF pipepc = "done" THEN 3
  ELSE IF cancelled THEN 2
  ELSE 1

\* C18: the pipeline never goes back in the order Running, Cancelling,
\* Drained, Stopped; it becomes Stopped only in a step that finds the event
\* channel closed and empty, not by the cancellation alone and not by an event
\* that fails to decode; and once Stopped it receives no event, writes and
\* commits nothing.
C18_StoppedOnlyWhenDrained ==
  /\ [][PipeState' >= PipeState]_vars
  /\ [][(pipepc = "run" /\ pipepc' = "done") =>
          (evClosed /\ events = << >> /\ UNCHANGED outvars)]_vars
  /\ [](pipepc = "done" => (evClosed /\ events = << >>))
  /\ [][pipepc = "done" => UNCHANGED <<pipepc, events, outvars>>]_vars

\* The pipeline has stopped after it was cancelled, having received an event
\* that failed to decode and discarded another after the cancellation.
C18_Witness ==
  /\ pipepc = "done"
  /\ cancelled
  /\ \E e \in processed : e.dec # "ok"
  /\ discarded # {}

\* C16: when the persist of a topic fails in a flush, no record is written for
\* the topic in that flush: after a failed Encode the iteration leaves the
\* records alone and reports no second error, a failed db.Write leaves the
\* records alone; and the failure leaves the cache as it is, for the next
\* flush.
C16_FailedPersistWritesNothing ==
  /\ [][(looppc = "write" /\ ~buf.valid) =>
          (disk' = disk /\ looppc' # "errWrite")]_vars
  /\ [][(looppc = "write" /\ looppc' = "errWrite") => disk' = disk]_vars
  /\ [][(looppc \in {"errEnc", "errWrite"} /\ looppc' # looppc) =>
          (offsets' = offsets /\ disk' = disk)]_vars

\* C20: a Query(topic) that the process survives leaves in the cache every
\* offset the loop has merged for the topic: a partition of the topic's cache
\* entry keeps its offset, so the next flush still persists it.
C20_QueryKeepsMerged ==
  [][\A t \in Topics :
       (Query(t) /\ looppc' # "crashed" /\ t \in DOMAIN offsets) =>
         \A p \in DOMAIN offsets[t] :
           /\ p \in DOMAIN offsets'[t]
           /\ offsets'[t][p] = offsets[t][p]]_vars

\* C13: no Query touches the map while the loop goroutine is in a flush (its
\* range over s.offsets is in progress), and no run ends in the runtime's
\* fatal error for a concurrent map access.
C13_MapOwnedByLoop ==
  /\ [][(\E t \in Topics : Query(t)) => looppc \notin FlushPcs]_vars
  /\ [](looppc # "crashed")

\* The partitions of topic t that were stored, with their last offset.
LastOf(t) ==
  [p \in {q \in Parts(t) : <<t, q>> \in DOMAIN last} |-> last[<<t, p>>]]

\* C14: for a caller that queries at startup only: Query(topic) with no record
\* on disk returns the empty mapping and no error, with a record it returns
\* the record, and either way the result becomes the cache entry of the topic;
\* a merged Store sets its partition in the entry and keeps the others; and
\* after a flush in which nothing failed, the record of every topic whose
\* Stores are all merged is exactly its cache entry: what Query returned,
\* updated and extended by the stored offsets.
C14_QuerySeedsThenFlush ==
  /\ [](\A t \in Topics :
          t \notin DOMAIN disk =>
            (~QueryOf(disk, t).err /\ QueryOf(disk, t).m = EmptyMap))
  /\ [][\A t \in Topics :
          (Query(t) /\ looppc' # "crashed") =>
            offsets'[t] = IF t \in DOMAIN disk THEN disk[t].m ELSE EmptyMap]_vars
  /\ [][LoopRecv =>
          LET u == Head(in) IN
            /\ offsets'[u.topic][u.partition] = u.offset
            /\ u.topic \in DOMAIN offsets =>
                 \A q \in DOMAIN offsets[u.topic] \ {u.partition} :
                   offsets'[u.topic][q] = offsets[u.topic][q]]_vars
  /\ [][(FlushEnds /\ ~failed') =>
          \A t \in DOMAIN offsets' :
            ( /\ LastOf(t) # EmptyMap
              /\ \A p \in DOMAIN LastOf(t) : ~Queued(t, p) /\ Cached(t, p) )
            => (t \in DOMAIN disk' /\ disk'[t] = Record(offsets'[t]))]_vars

\* For a caller that queries at startup only: the persist of a topic this
\* flush has visited failed (the topic has offsets to write, and its record is
\* not the one a successful persist leaves).
FailedInFlush ==
  \E t \in (DOMAIN offsets) \ todo :
    /\ ToWrite(offsets[t]) # EmptyMap
    /\ t \notin DOMAIN disk \/ disk[t] # Record(ToWrite(offsets[t]))

\* C15: with a reader of errors(), after a failed Encode or db.Write the error
\* is sent and the loop goes on with the same flush, it does not terminate;
\* and a flush in which the persist of a topic failed returns only when every
\* other topic with offsets to write has had its turn.
C15_FlushGoesOnAfterFailure ==
  /\ [][(looppc \in {"errEnc", "errWrite"} /\ looppc' # looppc) =>
          (looppc' \in {"write", "flush"} /\ todo' = todo)]_vars
  /\ [][(FlushEnds /\ FailedInFlush) =>
          \A t \in todo : ToWrite(offsets[t]) = EmptyMap]_vars

\* C19 as stated: a flush writes the record of a topic only if a non-sentinel
\* offset was stored for the topic; with no such Store made for the topic at
\* all, none was merged since the previous flush.
C19_WritesOnlyStoredTopics ==
  [][(looppc = "write" /\ looppc' = "flush") => LastOf(cur) # EmptyMap]_vars

\* C19, amended: a flush encodes and writes a topic only if the topic's cache
\* entry holds an offset that is no sentinel, and what it writes is the full
\* mapping of those offsets; the records change in no other step.
C19_WritesNonEmptyEntries ==
  /\ [][(looppc = "flush" /\ looppc' \in {"write", "errEnc"}) =>
          /\ ToWrite(offsets[cur']) # EmptyMap
          /\ looppc' = "write" => buf' = Record(ToWrite(offsets[cur']))]_vars
  /\ [][disk' # disk =>
          (looppc = "write" /\ disk' = Put(disk, cur, buf))]_vars

\* A flush is about to write again the record of a topic for which no Store
\* was ever made: the entry came from Query, the record is already on disk.
C19_Witness ==
  /\ looppc = "write"
  /\ buf.valid
  /\ LastOf(cur) = EmptyMap
  /\ cur \in DOMAIN disk
  /\ disk[cur] = buf
====
